---- MODULE Spec2Model ----
(***************************************************************************)
(* The toroidal Game of Life engine of moz-tutorial/hello-wasm/src/lib.rs. *)
(* A Universe is the struct {width, height, content}; the operations are   *)
(* Universe::new, randomize, tick, render, render2d, the Index/IndexMut    *)
(* accessors and the Neighbors iterator that tick uses.                    *)
(***************************************************************************)
EXTENDS Integers, Sequences, FiniteSets, TLC

VARIABLES
    universe,   \* handle -> Universe struct [width, height, content]
    status,     \* "ok", or the message of the panic that aborted the program
    last,       \* the last call made: [op, u]
    pre,        \* the receiver's struct when the last call began
    ret,        \* what the last call returned (NoValue when it returns ())
    console,    \* the console_log messages of the last call, in order
    origin,     \* handle -> "new" | <<"seed", s>> | "other": how content came about
    gen,        \* handle -> tick calls since content was last written otherwise
    frame,      \* the locals of a tick() followed push by push (NoValue otherwise)
    iter,       \* the Neighbors iterator under test (NoValue when there is none)
    yielded     \* what iter has returned so far, in order

vars == <<universe, status, last, pre, ret, console, origin, gen, frame, iter, yielded>>

-----------------------------------------------------------------------------
(* Bounds of the model *)

MaxDim == 4          \* widths and heights are drawn from 0..MaxDim
MaxCells == 9        \* and width*height <= MaxCells
MaxCoord == 4        \* coordinates handed to the accessors are in 0..MaxCoord
MaxSeed == 3         \* seeds are drawn from 0..MaxSeed
MaxGen == 2          \* at most MaxGen consecutive ticks are followed
MaxSeedDim == 4      \* the two-engine seeding runs use sizes up to MaxSeedDim
MaxIndexCells == 6   \* the accessor runs use grids of at most MaxIndexCells cells
MaxBlinkerDim == 6   \* the blinker runs use grids of 5..MaxBlinkerDim squared
MaxFreshDim == 7     \* the tick-only runs use sizes up to MaxFreshDim

-----------------------------------------------------------------------------
(* Values *)

Dead == "Dead"
Live == "Live"
Cell == {Dead, Live}

NoValue == [none |-> TRUE]
Ok == "ok"
RemByZero == "attempt to calculate the remainder with a divisor of zero"
OutOfBounds == "index out of bounds"
AssertFailed == "assertion failed: left equals right"

Coord(y, x) == [y |-> y, x |-> x]

\* #[repr(u32)] Dead = 0xFF_00_00_00, Live = 0xFF_00_00_FF, read as bytes
\* on the little-endian wasm32 target.
CellBytes(c) == IF c = Live THEN <<255, 0, 0, 255>> ELSE <<0, 0, 0, 255>>

-----------------------------------------------------------------------------
(* Coord::neighbors and the Neighbors iterator *)

CoordNeighbors(center, width, height) ==
    [center |-> center, n |-> 0, width |-> width, height |-> height]

NextCursor(n) == IF n = 3 THEN 4 ELSE n + 1

YOff(n, height) ==
    IF n \in {0, 1, 2} THEN height - 1
    ELSE IF n \in {3, 4, 5} THEN 0
    ELSE IF n \in {6, 7, 8} THEN 1
    ELSE 0

XOff(n, width) ==
    IF n \in {0, 3, 6} THEN width - 1
    ELSE IF n \in {1, 4, 7} THEN 0
    ELSE IF n \in {2, 5, 8} THEN 1
    ELSE 0

\* One call of next(): the item (NoValue for None) and the iterator afterwards.
NeighborsNext(it) ==
    IF it.n = 8
    THEN [item |-> NoValue, it |-> it]
    ELSE [item |-> Coord((it.center.y + YOff(it.n, it.height)) % it.height,
                         (it.center.x + XOff(it.n, it.width)) % it.width),
          it |-> [it EXCEPT !.n = NextCursor(it.n)]]

\* The items an iterator returns until its first None (what filter/count sees).
RECURSIVE Drain(_)
Drain(it) ==
    LET r == NeighborsNext(it)
    IN  IF r.item = NoValue THEN <<>> ELSE <<r.item>> \o Drain(r.it)

-----------------------------------------------------------------------------
(* Index<Coord> / IndexMut<Coord> *)

\* IndexPos with the row reduced modulo the width.
IndexPosRowByWidth(U, index) == ((index.y % U.width) * U.width) + (index.x % U.width)

\* The position in content that self[index] accesses (0-based).
IndexPos(U, index) == ((index.y % U.height) * U.width) + (index.x % U.width)

\* The panic of self[index], or Ok.
IndexStatus(U, index) ==
    IF U.height = 0 \/ U.width = 0 THEN RemByZero
    ELSE IF IndexPos(U, index) >= Len(U.content) THEN OutOfBounds
    ELSE Ok

Index(U, index) == U.content[IndexPos(U, index) + 1]

-----------------------------------------------------------------------------
(* Universe::new *)

New(width, height) ==
    [width |-> width, height |-> height,
     content |-> [i \in 1..(width * height) |-> Dead]]

CountLive(content) == Cardinality({i \in 1..Len(content) : content[i] = Live})

-----------------------------------------------------------------------------
(* Universe::tick *)

\* The number of Live cells among the coordinates the iterator returns.
LiveCount(U, here) ==
    LET ns == Drain(CoordNeighbors(here, U.width, U.height))
    IN  Cardinality({k \in 1..Len(ns) : Index(U, ns[k]) = Live})

\* Rule with the loneliness arm written `x < 1`.
RuleLonelyBelowOne(cell, live_count) ==
    IF cell = Live /\ live_count < 1 THEN Dead
    ELSE IF cell = Live /\ live_count > 3 THEN Dead
    ELSE IF cell = Dead /\ live_count = 3 THEN Live
    ELSE cell

\* Rule with the reproduction arm written `x == 2`.
RuleBirthOnTwo(cell, live_count) ==
    IF cell = Live /\ live_count < 2 THEN Dead
    ELSE IF cell = Live /\ live_count > 3 THEN Dead
    ELSE IF cell = Dead /\ live_count = 2 THEN Live
    ELSE cell

\* Rule with the reproduction arm written `x < 3`.
RuleBirthBelowThree(cell, live_count) ==
    IF cell = Live /\ live_count < 2 THEN Dead
    ELSE IF cell = Live /\ live_count > 3 THEN Dead
    ELSE IF cell = Dead /\ live_count < 3 THEN Live
    ELSE cell

\* The match of tick(), arm by arm.
Rule(cell, live_count) ==
    IF cell = Live /\ live_count < 2 THEN Dead
    ELSE IF cell = Live /\ live_count > 3 THEN Dead
    ELSE IF cell = Dead /\ live_count = 3 THEN Live
    ELSE cell

\* The coordinate of the idx-th push of the row-major double loop (0-based).
CoordOf(U, idx) == Coord(idx \div U.width, idx % U.width)

\* TickContent with the outer loop written `0..self.height - 1`.
TickContentShortRows(U) ==
    [i \in 1..((U.height - 1) * U.width) |->
        Rule(Index(U, CoordOf(U, i - 1)), LiveCount(U, CoordOf(U, i - 1)))]

\* The vector that tick() builds: one push per (y, x), y outermost.
TickContent(U) ==
    [i \in 1..(U.height * U.width) |->
        Rule(Index(U, CoordOf(U, i - 1)), LiveCount(U, CoordOf(U, i - 1)))]

\* The first panic among the self[..] accesses that tick() makes, or Ok.
TickStatus(U) ==
    LET accesses(i) ==
            LET here == CoordOf(U, i - 1)
                ns == Drain(CoordNeighbors(here, U.width, U.height))
            IN  {IndexStatus(U, ns[k]) : k \in 1..Len(ns)} \cup {IndexStatus(U, here)}
        bad == {i \in 1..(U.height * U.width) : accesses(i) # {Ok}}
    IN  IF bad = {} THEN Ok
        ELSE CHOOSE m \in accesses(CHOOSE i \in bad : \A j \in bad : i <= j) : m # Ok

-----------------------------------------------------------------------------
(* Universe::randomize *)

\* SmallRngBytes drawn from one generator shared by all engines and never
\* reseeded: the stream moves on with every engine seeded before.
SmallRngShared(seed, n) ==
    LET used == Cardinality({u \in DOMAIN origin : origin[u].kind # "new"})
    IN  [i \in 1..n |-> ((seed + used + 1) * 97 + i * 59 + (seed + used) * i * 13) % 256]

\* SmallRng::seed_from_u64(seed) followed by fill_bytes on a buffer of n
\* bytes: a fixed byte stream per seed.
SmallRngBytes(seed, n) ==
    [i \in 1..n |-> ((seed + 1) * 97 + i * 59 + seed * i * 13) % 256]

\* bits[idx_word] & (1 << idx_bit) == 0
BitClear(byte, idx_bit) == (byte \div (2 ^ idx_bit)) % 2 = 0

\* RandomizeFrom assigning only where the bit is set, the other cells left
\* as they are.
RECURSIVE RandomizeFromSetOnly(_, _, _)
RandomizeFromSetOnly(U, bits, idx) ==
    IF idx >= U.height * U.width THEN [content |-> U.content, status |-> Ok]
    ELSE IF idx \div 8 >= Len(bits) \/ idx >= Len(U.content)
         THEN [content |-> U.content, status |-> OutOfBounds]
         ELSE RandomizeFromSetOnly(
                [U EXCEPT !.content[idx + 1] =
                    IF (bits[(idx \div 8) + 1] \div (2 ^ (idx % 8))) % 2 = 0 THEN @ ELSE Live],
                bits, idx + 1)

\* The double loop from index idx on: the content it leaves and how it ended.
RECURSIVE RandomizeFrom(_, _, _)
RandomizeFrom(U, bits, idx) ==
    IF idx >= U.height * U.width THEN [content |-> U.content, status |-> Ok]
    ELSE IF idx \div 8 >= Len(bits) \/ idx >= Len(U.content)
         THEN [content |-> U.content, status |-> OutOfBounds]
         ELSE RandomizeFrom(
                [U EXCEPT !.content[idx + 1] =
                    IF BitClear(bits[(idx \div 8) + 1], idx % 8) THEN Dead ELSE Live],
                bits, idx + 1)

\* The length of the bits vector: bits.resize(width * height / 8, 0).
BitsLen(U) == (U.width * U.height) \div 8

RandomizeRun(U, seed) == RandomizeFrom(U, SmallRngBytes(seed, BitsLen(U)), 0)

-----------------------------------------------------------------------------
(* Display::fmt, Universe::render and Universe::render2d *)

Glyph(cell) == IF cell = Live THEN "+" ELSE " "

\* FmtLine with the row written by write!(f, "{}", line).
FmtLineNoNewline(U, y) == [x \in 1..U.width |-> Glyph(Index(U, Coord(y, x - 1)))]

\* One row: its glyphs followed by the newline of write!(f, "{}\n", line).
FmtLine(U, y) == [x \in 1..(U.width + 1) |->
                    IF x = U.width + 1 THEN "\n" ELSE Glyph(Index(U, Coord(y, x - 1)))]

RECURSIVE FmtFrom(_, _)
FmtFrom(U, y) == IF y >= U.height THEN <<>> ELSE FmtLine(U, y) \o FmtFrom(U, y + 1)

Fmt(U) == FmtFrom(U, 0)

\* The first panic among the self[..] accesses of fmt, or Ok.
FmtStatus(U) ==
    LET sts == {IndexStatus(U, Coord(y, x)) : y \in 0..(U.height - 1), x \in 0..(U.width - 1)}
    IN  IF sts \subseteq {Ok} THEN Ok ELSE CHOOSE m \in sts : m # Ok

\* data_slice: content reinterpreted as bytes, 4 per cell.
RECURSIVE DataSliceFrom(_, _)
DataSliceFrom(content, i) ==
    IF i > Len(content) THEN <<>> ELSE CellBytes(content[i]) \o DataSliceFrom(content, i + 1)

DataSlice(U) == DataSliceFrom(U.content, 1)

-----------------------------------------------------------------------------
(* State *)

Handles == DOMAIN universe

Made == [kind |-> "new", seed |-> -1]
Seeded(seed) == [kind |-> "seed", seed |-> seed]
Other == [kind |-> "other", seed |-> -1]

\* The sizes new() is called with in the runs of a single engine.
Dims == {d \in (0..MaxDim) \X (0..MaxDim) : d[1] * d[2] <= MaxCells}

\* Construction: every handle holds Universe::new(width, height).
Construct(handles, width, height) ==
    /\ universe = [u \in handles |-> New(width, height)]
    /\ status = Ok
    /\ last = [op |-> "new", u |-> 0]
    /\ pre = NoValue
    /\ ret = NoValue
    /\ console = <<>>
    /\ origin = [u \in handles |-> Made]
    /\ gen = [u \in handles |-> 0]
    /\ frame = NoValue
    /\ iter = NoValue
    /\ yielded = <<>>

Init == \E d \in Dims : Construct({1}, d[1], d[2])

-----------------------------------------------------------------------------
(* Calls *)

\* self[index] = cell, through IndexMut; call is what is noted of the call.
IndexMutAs(u, index, cell, call) ==
    LET U == universe[u]
        st == IndexStatus(U, index)
    IN  /\ status = Ok
        /\ frame = NoValue
        /\ status' = st
        /\ universe' = IF st = Ok
                       THEN [universe EXCEPT ![u].content[IndexPos(U, index) + 1] = cell]
                       ELSE universe
        /\ last' = call
        /\ pre' = U
        /\ ret' = NoValue
        /\ console' = <<>>
        /\ origin' = [origin EXCEPT ![u] = Other]
        /\ gen' = [gen EXCEPT ![u] = 0]
        /\ UNCHANGED <<frame, iter, yielded>>

IndexMut(u, index, cell) == IndexMutAs(u, index, cell, [op |-> "index_mut", u |-> u])

\* The same call with its arguments noted.
IndexSet(u, index, cell) ==
    IndexMutAs(u, index, cell, [op |-> "index_mut", u |-> u, index |-> index, cell |-> cell])

\* self[index], through Index: the place accessed and the cell read there.
IndexGet(u, index) ==
    LET U == universe[u]
        st == IndexStatus(U, index)
    IN  /\ status = Ok
        /\ frame = NoValue
        /\ status' = st
        /\ last' = [op |-> "index", u |-> u, index |-> index]
        /\ pre' = U
        /\ ret' = IF st = Ok
                  THEN [pos |-> IndexPos(U, index), cell |-> Index(U, index)]
                  ELSE NoValue
        /\ console' = <<>>
        /\ UNCHANGED <<universe, origin, gen, frame, iter, yielded>>

Randomize(u, seed) ==
    LET U == universe[u]
        run == RandomizeRun(U, seed)
    IN  /\ status = Ok
        /\ frame = NoValue
        /\ status' = run.status
        /\ universe' = [universe EXCEPT ![u].content = run.content]
        /\ last' = [op |-> "randomize", u |-> u, seed |-> seed]
        /\ pre' = U
        /\ ret' = NoValue
        /\ console' = IF run.status = Ok
                      THEN << <<"randomized, resulting in live cells", CountLive(run.content)>> >>
                      ELSE <<>>
        /\ origin' = [origin EXCEPT ![u] =
                        IF origin[u] = Made /\ run.status = Ok THEN Seeded(seed) ELSE Other]
        /\ gen' = [gen EXCEPT ![u] = 0]
        /\ UNCHANGED <<frame, iter, yielded>>

\* Tick storing the dimensions the other way round along with the new content.
TickTransposed(u) ==
    LET U == universe[u]
        st == TickStatus(U)
    IN  /\ status = Ok
        /\ frame = NoValue
        /\ gen[u] < MaxGen
        /\ status' = st
        /\ universe' = IF st = Ok
                       THEN [universe EXCEPT ![u] = [width |-> U.height, height |-> U.width,
                                                     content |-> TickContent(U)]]
                       ELSE universe
        /\ last' = [op |-> "tick", u |-> u]
        /\ pre' = U
        /\ ret' = NoValue
        /\ console' = << <<"advancing by one tick">> >>
        /\ origin' = [origin EXCEPT ![u] = Other]
        /\ gen' = [gen EXCEPT ![u] = gen[u] + 1]
        /\ UNCHANGED <<frame, iter, yielded>>

Tick(u) ==
    LET U == universe[u]
        st == TickStatus(U)
    IN  /\ status = Ok
        /\ frame = NoValue
        /\ gen[u] < MaxGen
        /\ status' = st
        /\ universe' = IF st = Ok
                       THEN [universe EXCEPT ![u].content = TickContent(U)]
                       ELSE universe
        /\ last' = [op |-> "tick", u |-> u]
        /\ pre' = U
        /\ ret' = NoValue
        /\ console' = IF st = Ok
                      THEN << <<"advancing by one tick">>,
                              <<"tick resulted in live cells", CountLive(U.content)>> >>
                      ELSE << <<"advancing by one tick">> >>
        /\ origin' = [origin EXCEPT ![u] = Other]
        /\ gen' = [gen EXCEPT ![u] = gen[u] + 1]
        /\ UNCHANGED <<frame, iter, yielded>>

\* Render advancing the engine by a generation while it formats.
RenderTicking(u) ==
    LET U == universe[u]
        st == FmtStatus(U)
    IN  /\ status = Ok
        /\ frame = NoValue
        /\ status' = st
        /\ universe' = IF st = Ok
                       THEN [universe EXCEPT ![u].content = TickContent(U)]
                       ELSE universe
        /\ last' = [op |-> "render", u |-> u]
        /\ pre' = U
        /\ ret' = IF st = Ok THEN [text |-> Fmt(U)] ELSE NoValue
        /\ console' = << <<"performing rendering cycle">> >>
        /\ UNCHANGED <<origin, gen, frame, iter, yielded>>

Render(u) ==
    LET U == universe[u]
        st == FmtStatus(U)
    IN  /\ status = Ok
        /\ frame = NoValue
        /\ status' = st
        /\ last' = [op |-> "render", u |-> u]
        /\ pre' = U
        /\ ret' = IF st = Ok THEN [text |-> Fmt(U)] ELSE NoValue
        /\ console' = << <<"performing rendering cycle">> >>
        /\ UNCHANGED <<universe, origin, gen, frame, iter, yielded>>

\* handoff is the outcome of ImageData::new and put_image_data on the host.
Render2d(u, handoff) ==
    LET U == universe[u]
        data_slice == DataSlice(U)
        st == IF Len(data_slice) = U.width * U.height * 4 THEN Ok ELSE AssertFailed
    IN  /\ status = Ok
        /\ frame = NoValue
        /\ status' = st
        /\ last' = [op |-> "render2d", u |-> u]
        /\ pre' = U
        /\ ret' = IF st = Ok THEN [result |-> handoff, data |-> data_slice] ELSE NoValue
        /\ console' = << <<"data slice", Len(data_slice)>>,
                         <<"want", U.width * U.height * 4>> >>
        /\ UNCHANGED <<universe, origin, gen, frame, iter, yielded>>

\* tick() followed statement by statement. TickBegin: the log line and the
\* empty local vector `content`.
TickBegin(u) ==
    /\ status = Ok
    /\ frame = NoValue
    /\ gen[u] < MaxGen
    /\ frame' = [u |-> u, content |-> <<>>, cell |-> Dead, live_count |-> 0]
    /\ last' = [op |-> "tick running", u |-> u]
    /\ pre' = universe[u]
    /\ ret' = NoValue
    /\ console' = << <<"advancing by one tick">> >>
    /\ UNCHANGED <<universe, status, origin, gen, iter, yielded>>

\* The first panic among the self[..] accesses of one loop iteration, or Ok.
PushStatus(U, here) ==
    LET ns == Drain(CoordNeighbors(here, U.width, U.height))
        sts == {IndexStatus(U, ns[k]) : k \in 1..Len(ns)} \cup {IndexStatus(U, here)}
    IN  IF sts \subseteq {Ok} THEN Ok ELSE CHOOSE m \in sts : m # Ok

\* TickPush writing the successor into self.content as well as pushing it.
TickPushInPlace ==
    LET U == universe[frame.u]
        here == CoordOf(U, Len(frame.content))
        st == PushStatus(U, here)
    IN  /\ frame # NoValue
        /\ status = Ok
        /\ Len(frame.content) < U.height * U.width
        /\ status' = st
        /\ frame' = IF st = Ok
                    THEN [frame EXCEPT !.content = Append(@, Rule(Index(U, here), LiveCount(U, here))),
                                       !.cell = Index(U, here),
                                       !.live_count = LiveCount(U, here)]
                    ELSE frame
        /\ universe' = IF st = Ok
                       THEN [universe EXCEPT ![frame.u].content[IndexPos(U, here) + 1] =
                                Rule(Index(U, here), LiveCount(U, here))]
                       ELSE universe
        /\ UNCHANGED <<last, pre, ret, console, origin, gen, iter, yielded>>

\* TickPush: one iteration of the double loop, for the next (y, x) in
\* row-major order: count, match, content.push(next).
TickPush ==
    LET U == universe[frame.u]
        here == CoordOf(U, Len(frame.content))
        st == PushStatus(U, here)
    IN  /\ frame # NoValue
        /\ status = Ok
        /\ Len(frame.content) < U.height * U.width
        /\ status' = st
        /\ frame' = IF st = Ok
                    THEN [frame EXCEPT !.content = Append(@, Rule(Index(U, here), LiveCount(U, here))),
                                       !.cell = Index(U, here),
                                       !.live_count = LiveCount(U, here)]
                    ELSE frame
        /\ UNCHANGED <<universe, last, pre, ret, console, origin, gen, iter, yielded>>

\* TickSwap: after the loops, the count is logged and mem::swap installs the
\* local vector.
TickSwap ==
    LET u == frame.u
        U == universe[u]
    IN  /\ frame # NoValue
        /\ status = Ok
        /\ Len(frame.content) >= U.height * U.width
        /\ universe' = [universe EXCEPT ![u].content = frame.content]
        /\ frame' = NoValue
        /\ last' = [op |-> "tick", u |-> u]
        /\ console' = Append(console, <<"tick resulted in live cells", CountLive(U.content)>>)
        /\ origin' = [origin EXCEPT ![u] = Other]
        /\ gen' = [gen EXCEPT ![u] = gen[u] + 1]
        /\ UNCHANGED <<status, pre, ret, iter, yielded>>

\* One call of next() on the iterator under test; it is followed up to its
\* first None.
IterNext ==
    LET r == NeighborsNext(iter)
    IN  /\ iter # NoValue
        /\ status = Ok
        /\ IF yielded = <<>> THEN TRUE ELSE yielded[Len(yielded)] # NoValue
        /\ iter' = r.it
        /\ yielded' = Append(yielded, r.item)
        /\ last' = [op |-> "next", u |-> 0]
        /\ UNCHANGED <<universe, status, pre, ret, console, origin, gen, frame>>

\* A fixture of three IndexMut calls on a new engine: the horizontal line
\* (r, c-1), (r, c), (r, c+1).
PlaceBlinker(u, r, c) ==
    LET U == universe[u]
        at(x) == IndexPos(U, Coord(r, x)) + 1
    IN  /\ status = Ok
        /\ frame = NoValue
        /\ origin[u] = Made
        /\ universe' = [universe EXCEPT ![u].content =
                            [i \in 1..Len(U.content) |->
                                IF i \in {at(c - 1), at(c), at(c + 1)} THEN Live ELSE U.content[i]]]
        /\ last' = [op |-> "index_mut", u |-> u]
        /\ pre' = U
        /\ ret' = NoValue
        /\ console' = <<>>
        /\ origin' = [origin EXCEPT ![u] = Other]
        /\ gen' = [gen EXCEPT ![u] = 0]
        /\ UNCHANGED <<status, frame, iter, yielded>>

-----------------------------------------------------------------------------
(* Specifications *)

CallIndexMut ==
    \E u \in Handles, y \in 0..MaxCoord, x \in 0..MaxCoord, cell \in Cell :
        IndexMut(u, Coord(y, x), cell)
CallRandomize == \E u \in Handles, seed \in 0..MaxSeed : Randomize(u, seed)
CallTick == \E u \in Handles : Tick(u)
CallRender == \E u \in Handles : Render(u)
CallRender2d == \E u \in Handles, handoff \in {"Ok", "Err"} : Render2d(u, handoff)
CallPlaceBlinker ==
    \E u \in Handles :
        \E r \in 1..(universe[u].height - 2), c \in 1..(universe[u].width - 2) :
            PlaceBlinker(u, r, c)

\* One engine, any sequence of calls.
Next == CallIndexMut \/ CallRandomize \/ CallTick \/ CallRender \/ CallRender2d

Spec == Init /\ [][Next]_vars

\* The Neighbors iterator alone, for every center and positive size.
InitNeighbors ==
    /\ \E width \in 1..MaxDim, height \in 1..MaxDim, y \in 0..MaxCoord, x \in 0..MaxCoord :
          iter = CoordNeighbors(Coord(y, x), width, height)
    /\ yielded = <<>>
    /\ universe = <<>>
    /\ status = Ok
    /\ last = [op |-> "neighbors", u |-> 0]
    /\ pre = NoValue
    /\ ret = NoValue
    /\ console = <<>>
    /\ origin = <<>>
    /\ gen = <<>>
    /\ frame = NoValue

NextNeighbors == IterNext

SpecNeighbors == InitNeighbors /\ [][NextNeighbors]_vars

\* A blinker on a grid of at least 5x5, then ticks.
InitBlinker ==
    \E width \in 5..MaxBlinkerDim, height \in 5..MaxBlinkerDim : Construct({1}, width, height)

NextBlinker == CallPlaceBlinker \/ CallTick

SpecBlinker == InitBlinker /\ [][NextBlinker]_vars

\* Two engines of one size, each seeded.
InitSeed ==
    \E width \in 1..MaxSeedDim, height \in 1..MaxSeedDim : Construct({1, 2}, width, height)

NextSeed == CallRandomize

SpecSeed == InitSeed /\ [][NextSeed]_vars

\* One engine read and written through the accessors.
CallIndexGet ==
    \E u \in Handles, y \in 0..MaxCoord, x \in 0..MaxCoord : IndexGet(u, Coord(y, x))

CallIndexSet ==
    \E u \in Handles, y \in 0..MaxCoord, x \in 0..MaxCoord, cell \in Cell :
        IndexSet(u, Coord(y, x), cell)

InitIndex == \E d \in Dims : d[1] * d[2] <= MaxIndexCells /\ Construct({1}, d[1], d[2])

NextIndex == CallIndexSet \/ CallIndexGet

SpecIndex == InitIndex /\ [][NextIndex]_vars

\* One engine whose ticks are followed push by push, between writes.
CallTickBegin == \E u \in Handles : TickBegin(u)

NextTick == CallIndexMut \/ CallTickBegin \/ TickPush \/ TickSwap

SpecTick == Init /\ [][NextTick]_vars

\* An engine as new returns it, of any positive size, with tick() the only
\* call made.
InitFresh ==
    \E width \in 1..MaxFreshDim, height \in 1..MaxFreshDim : Construct({1}, width, height)

NextFresh == CallTick

SpecFresh == InitFresh /\ [][NextFresh]_vars

-----------------------------------------------------------------------------
(* What the claims compare the code with *)

\* The eight toroidal neighbours of (row, col), top-left first, row by row.
TorusNeighbors(row, col, width, height) ==
    LET up == (row + height - 1) % height
        down == (row + 1) % height
        left == (col + width - 1) % width
        right == (col + 1) % width
    IN  << Coord(up, left), Coord(up, col % width), Coord(up, right),
           Coord(row % height, left), Coord(row % height, right),
           Coord(down, left), Coord(down, col % width), Coord(down, right) >>

ConwayRule(cell, n) ==
    IF cell = Live THEN (IF n = 2 \/ n = 3 THEN Live ELSE Dead)
    ELSE (IF n = 3 THEN Live ELSE Dead)

ConwaySuccessor(U) ==
    [i \in 1..(U.width * U.height) |->
        LET y == (i - 1) \div U.width
            x == (i - 1) % U.width
            ns == TorusNeighbors(y, x, U.width, U.height)
            n == Cardinality({k \in 1..8 : U.content[ns[k].y * U.width + ns[k].x + 1] = Live})
        IN  ConwayRule(U.content[i], n)]

Exhausted == yielded # <<>> /\ yielded[Len(yielded)] = NoValue

Received == {yielded[k] : k \in 1..Len(yielded)}

LiveAt(width, height, cells) ==
    [i \in 1..(width * height) |->
        IF Coord((i - 1) \div width, (i - 1) % width) \in cells THEN Live ELSE Dead]

HBlinker(width, height, r, c) ==
    LiveAt(width, height, {Coord(r, c - 1), Coord(r, c), Coord(r, c + 1)})

VBlinker(width, height, r, c) ==
    LiveAt(width, height, {Coord(r - 1, c), Coord(r, c), Coord(r + 1, c)})

Ticked == last.op = "tick" /\ status = Ok

-----------------------------------------------------------------------------
(* Claims *)

\* C1: on a grid of at least 3x3, one tick() sets every cell to its Conway
\* successor, the live count being taken over the 8 toroidal neighbours of
\* the cell and not the cell itself.
C1_TickIsConway ==
    (Ticked /\ pre.width >= 3 /\ pre.height >= 3)
        => universe[last.u].content = ConwaySuccessor(pre)

\* C2: the iterator of Coord::neighbors returns exactly the 8 toroidal
\* neighbours, top-left first and row by row, the centre not among them,
\* and then None.
C2_NeighborsAreTheEight ==
    Exhausted =>
        /\ Len(yielded) = 9
        /\ SubSeq(yielded, 1, 8) =
              TorusNeighbors(iter.center.y, iter.center.x, iter.width, iter.height)

\* C3: a horizontal blinker on a grid of at least 5x5 becomes the vertical
\* blinker on the same centre after one tick() and the horizontal one again
\* after the second.
C3_BlinkerOscillates ==
    Ticked =>
        \A r \in 1..(pre.height - 2), c \in 1..(pre.width - 2) :
            /\ (gen[last.u] = 1 /\ pre.content = HBlinker(pre.width, pre.height, r, c))
                  => universe[last.u].content = VBlinker(pre.width, pre.height, r, c)
            /\ (gen[last.u] = 2 /\ pre.content = VBlinker(pre.width, pre.height, r, c))
                  => universe[last.u].content = HBlinker(pre.width, pre.height, r, c)

\* C4: on a grid of at least 3x3 the enumeration wraps: a centre in the last
\* column has the cells of column 0 in its own and the two adjacent rows
\* among its neighbours, a centre in column 0 those of the last column, and
\* likewise for the last row and row 0.
C4_WrapNeighbors ==
    (Exhausted /\ iter.width >= 3 /\ iter.height >= 3) =>
        LET w == iter.width
            h == iter.height
            y == iter.center.y % h
            x == iter.center.x % w
            rows == {(y + h - 1) % h, y, (y + 1) % h}
            cols == {(x + w - 1) % w, x, (x + 1) % w}
        IN  /\ x = w - 1 => \A r \in rows : Coord(r, 0) \in Received
            /\ x = 0 => \A r \in rows : Coord(r, w - 1) \in Received
            /\ y = h - 1 => \A c \in cols : Coord(0, c) \in Received
            /\ y = 0 => \A c \in cols : Coord(h - 1, c) \in Received

\* C5: on an engine of positive width and height no randomize, tick or
\* render call ends in a panic.
C5_NoErrorState ==
    (\A u \in Handles : universe[u].width > 0 /\ universe[u].height > 0)
        => status = Ok

\* C6: new() with a zero width or height gives no engine on which a call
\* can then be made.
C6_ZeroSizeRejected ==
    (last.op \in {"tick", "render", "render2d", "randomize"} /\ status = Ok)
        => (pre.width > 0 /\ pre.height > 0)

\* C7: content always has width*height cells, so the pixel snapshot of
\* render2d has width*height*4 bytes and its assertion holds.
C7_ContentLength ==
    /\ \A u \in Handles : Len(universe[u].content) = universe[u].width * universe[u].height
    /\ status # AssertFailed
    /\ (last.op = "render2d" /\ status = Ok)
          => Len(ret.data) = universe[last.u].width * universe[last.u].height * 4

C7_Witness ==
    /\ last.op = "render2d"
    /\ status = Ok
    /\ gen[last.u] >= 1
    /\ CountLive(universe[last.u].content) >= 1
    /\ Len(ret.data) >= 16

C9_LoneCenterDies ==
    (Ticked /\ pre = [width |-> 3, height |-> 3, content |-> LiveAt(3, 3, {Coord(1, 1)})])
        => \A i \in 1..9 : universe[last.u].content[i] = Dead

C9_Witness ==
    /\ Ticked
    /\ pre = [width |-> 3, height |-> 3, content |-> LiveAt(3, 3, {Coord(1, 1)})]

\* C10: render() returns height lines, each of width glyphs and a newline,
\* the glyph of (y, x) being "+" for Live and a space for Dead; on a new
\* engine every glyph is a space.
C10_TextSnapshot ==
    (last.op = "render" /\ universe[last.u].width > 0 /\ universe[last.u].height > 0) =>
        LET U == universe[last.u]
            w == U.width
        IN  /\ status = Ok
            /\ Len(ret.text) = U.height * (w + 1)
            /\ \A y \in 0..(U.height - 1) :
                  /\ ret.text[y * (w + 1) + w + 1] = "\n"
                  /\ \A x \in 0..(w - 1) :
                        /\ ret.text[y * (w + 1) + x + 1] =
                              (IF U.content[y * w + x + 1] = Live THEN "+" ELSE " ")
                        /\ origin[last.u] = Made => ret.text[y * (w + 1) + x + 1] = " "

C10_Witness ==
    /\ last.op = "render"
    /\ status = Ok
    /\ universe[last.u].width >= 2
    /\ universe[last.u].height >= 2
    /\ CountLive(universe[last.u].content) \notin {0, Len(universe[last.u].content)}


\* C11: render and render2d leave width, height and content as they were,
\* and a render call directly after another returns the same output.
C11_RenderReadOnly ==
    /\ [](last.op \in {"render", "render2d"} => universe[last.u] = pre)
    /\ [][(last.op = "render" /\ last'.op = "render" /\ status' = Ok)
            => ret'.text = ret.text]_vars
    /\ [][(last.op = "render2d" /\ last'.op = "render2d" /\ status' = Ok)
            => ret'.data = ret.data]_vars

C11_Witness ==
    /\ last.op = "render"
    /\ status = Ok
    /\ gen[last.u] >= 1
    /\ pre = universe[last.u]
    /\ CountLive(pre.content) >= 2


\* The successor that tick() computes for the idx-th cell of grid U.
SuccessorOf(U, idx) ==
    Rule(Index(U, CoordOf(U, idx - 1)), LiveCount(U, CoordOf(U, idx - 1)))

\* C12: while tick() computes the successors the engine's content stays the
\* pre-tick content, every successor pushed so far is computed from the
\* pre-tick content alone, and content changes only in the final swap, to
\* the complete successor grid.
C12_TickAtomic ==
    /\ [](frame # NoValue =>
            /\ universe[frame.u] = pre
            /\ Len(frame.content) <= pre.width * pre.height
            /\ \A i \in 1..Len(frame.content) : frame.content[i] = SuccessorOf(pre, i))
    /\ []((last.op = "tick" /\ status = Ok) =>
            /\ frame = NoValue
            /\ Len(universe[last.u].content) = pre.width * pre.height
            /\ \A i \in 1..(pre.width * pre.height) :
                  universe[last.u].content[i] = SuccessorOf(pre, i))
    /\ [][frame # NoValue =>
            \/ universe' = universe
            \/ /\ frame' = NoValue
               /\ Len(frame.content) = universe[frame.u].width * universe[frame.u].height
               /\ universe' = [universe EXCEPT ![frame.u].content = frame.content]]_vars

C12_Witness ==
    /\ frame # NoValue
    /\ Len(frame.content) >= 5
    /\ \E i \in 1..Len(frame.content) : frame.content[i] # pre.content[i]
    /\ universe[frame.u] = pre

\* C15: for the cell state and the live count that tick() computed, the
\* pushed successor is the one of the rule table: Live with fewer than 2 or
\* more than 3 dies, Live with 2 or 3 lives, Dead with 3 is born, Dead with
\* any other count stays Dead.
RuleTable(cell, n) ==
    IF cell = Live
    THEN (IF n < 2 THEN Dead ELSE IF n <= 3 THEN Live ELSE Dead)
    ELSE (IF n = 3 THEN Live ELSE Dead)

C15_RuleTable ==
    /\ \A cell \in Cell, n \in 0..8 : Rule(cell, n) = RuleTable(cell, n)
    /\ (frame # NoValue /\ frame.content # <<>>) =>
          /\ frame.live_count \in 0..8
          /\ frame.content[Len(frame.content)] = RuleTable(frame.cell, frame.live_count)

C15_Witness ==
    /\ frame # NoValue
    /\ frame.content # <<>>
    /\ frame.cell = Dead
    /\ frame.live_count = 3
    /\ frame.content[Len(frame.content)] = Live


\* C13: on an engine of positive width and height, get and set with any
\* coordinate, also one beyond the grid, access position
\* ((y mod height) * width) + (x mod width), which lies in
\* 0 .. width*height - 1, and never panic.
C13_IndexWraps ==
    (last.op \in {"index", "index_mut"} /\ pre.width > 0 /\ pre.height > 0) =>
        LET p == ((last.index.y % pre.height) * pre.width) + (last.index.x % pre.width)
        IN  /\ status = Ok
            /\ p \in 0..(pre.width * pre.height - 1)
            /\ last.op = "index" =>
                  /\ ret.pos = p
                  /\ ret.cell = pre.content[p + 1]
                  /\ universe[last.u] = pre
            /\ last.op = "index_mut" =>
                  universe[last.u] = [pre EXCEPT !.content[p + 1] = last.cell]

C13_Witness ==
    /\ last.op = "index_mut"
    /\ status = Ok
    /\ pre.width >= 2
    /\ pre.height >= 2
    /\ pre.width # pre.height
    /\ last.index.y > pre.height
    /\ last.index.x > pre.width
    /\ last.cell = Live
    /\ universe[last.u] # pre


\* C14: no call changes an engine's width or height: after any sequence of
\* randomize, tick, render and render2d they are the ones new() stored.
C14_DimensionsFixed ==
    [][\A u \in Handles :
          /\ u \in DOMAIN universe'
          /\ universe'[u].width = universe[u].width
          /\ universe'[u].height = universe[u].height]_vars

C14_Witness ==
    /\ last.op = "tick"
    /\ status = Ok
    /\ gen[last.u] = 2
    /\ universe[last.u].width = 2
    /\ universe[last.u].height = 4
    /\ pre.width = 2
    /\ pre.height = 4
    /\ CountLive(universe[last.u].content) >= 1


\* C16: the count that tick() logs is the number of Live cells of the grid
\* the call produced, and so is the count that randomize logs.
C16_LoggedCountIsResult ==
    (last.op \in {"tick", "randomize"} /\ status = Ok) =>
        console[Len(console)][2] = CountLive(universe[last.u].content)


\* The bits vector of the last randomize call.
BitsOfLast == SmallRngBytes(last.seed, BitsLen(pre))

\* C17: randomize reads one bit per cell: the buffer filled from the
\* generator holds at least width*height bits, and the cell of row-major
\* index idx becomes Live iff bit (idx mod 8) of byte (idx div 8) is 1.
C17_OneBitPerCell ==
    last.op = "randomize" =>
        /\ 8 * Len(BitsOfLast) >= pre.width * pre.height
        /\ status = Ok
        /\ \A idx \in 0..(pre.width * pre.height - 1) :
              universe[last.u].content[idx + 1] = Live
                  <=> (BitsOfLast[(idx \div 8) + 1] \div (2 ^ (idx % 8))) % 2 = 1


\* C18: the grid randomize(seed) leaves depends on the seed and the size
\* alone: after any calls it is the grid the same call leaves on a new
\* engine of that size.
C18_SeedOnly ==
    (last.op = "randomize" /\ status = Ok) =>
        universe[last.u].content =
            RandomizeRun(New(pre.width, pre.height), last.seed).content

C18_Witness ==
    /\ last.op = "randomize"
    /\ status = Ok
    /\ origin[last.u] = Other
    /\ CountLive(pre.content) >= 6
    /\ CountLive(universe[last.u].content) \in 1..5


\* C19: on an engine returned by new with positive width and height, on
\* which only tick() is called, every call returns and every cell is Dead in
\* every reachable state.
C19_AllDeadFixedPoint ==
    /\ status = Ok
    /\ \A u \in DOMAIN universe :
          /\ Len(universe[u].content) = universe[u].width * universe[u].height
          /\ \A i \in 1..Len(universe[u].content) : universe[u].content[i] = Dead

C19_Witness ==
    /\ last.op = "tick"
    /\ status = Ok
    /\ gen[last.u] = MaxGen
    /\ universe[last.u].width >= 3
    /\ universe[last.u].height >= 3
    /\ universe[last.u].width # universe[last.u].height
    /\ CountLive(universe[last.u].content) = 0

====
